---- MODULE Spec2Model ----
(***************************************************************************)
(* The KeyStoneJS connector of src/index.js as a state machine.            *)
(*                                                                         *)
(* The connector object holds its configuration (modelPrefix and the       *)
(* keystone registry); the persistence engine holds the records; each      *)
(* caller has one call in flight at a time.  A connector method is one     *)
(* action (the synchronous part of the method, up to the point where it    *)
(* hands a callback to the engine), and each engine completion is one      *)
(* action (the callback body the method registered).                       *)
(***************************************************************************)
EXTENDS Naturals, Sequences, FiniteSets, TLC

VARIABLES
    modelPrefix,   \* settings.modelPrefix as a sequence of characters (<<>>: not configured)
    store,         \* the engine's records: registry handle -> set of stored identifiers
    filterObj,     \* a filter array owned by the caller and passed to all() by reference
    calls          \* per caller: the connector call in flight or last finished

vars == <<modelPrefix, store, filterObj, calls>>

(***************************************************************************)
(* Bounds of the model.                                                    *)
(***************************************************************************)
MaxFilterLen == 2      \* sub-filters in a filter array
MaxSubLen == 2         \* elements in one sub-filter (command and arguments)

(***************************************************************************)
(* JavaScript values, tagged by kind.                                      *)
(***************************************************************************)
JsNull == [k |-> "null"]
JsUndefined == [k |-> "undefined"]
JsStr(s) == [k |-> "string", v |-> s]
JsBool(b) == [k |-> "boolean", v |-> b]
JsObj(o) == [k |-> "object", v |-> o]
JsArr(a) == [k |-> "array", v |-> a]
JsErr(e) == [k |-> "error", v |-> e]

\* JavaScript truthiness of the values that occur (strings are non-empty).
Truthy(x) == /\ x.k \notin {"null", "undefined"}
             /\ (x.k = "boolean" => x.v)

(***************************************************************************)
(* Configuration and inputs.                                               *)
(***************************************************************************)
\* Model names are sequences of characters.
NameU == <<"U">>
NameKU == <<"k", "U">>

\* The names the registry uses for its lists.
BaseNames == {NameU, NameKU}

\* settings.modelPrefix: not configured, a literal prefix, a prefix that is a
\* regular-expression wildcard.
Prefixes == {<<>>, <<"k">>, <<".">>}

\* keystone.lists: the registry of lists.
KeystoneLists == {NameU, NameKU}

\* The names under which the keystone object itself carries a property with a
\* model (the path save() looks the model up by).
KeystoneProps == {NameU}

\* The identifiers records are stored under, in the order the engine returns them.
IdOrder == <<"i1">>
Ids == {IdOrder[i] : i \in 1..Len(IdOrder)}

Handle(path, name) == [path |-> path, name |-> name]
NoHandle == Handle("none", <<>>)
Handles == {Handle("lists", n) : n \in KeystoneLists}
              \cup {Handle("direct", n) : n \in KeystoneProps}
Registered(h) == h \in Handles

\* The data objects callers pass: the identifier absent, null or set, with or
\* without an engine-native _id field.
Datas == [id : {JsNull, JsUndefined} \cup {JsStr(i) : i \in Ids},
          _id : {JsUndefined, JsStr("oid")}]

\* The names a caller passes: a registry name, or one with the prefix in front.
CallNames == BaseNames \cup {modelPrefix \o n : n \in BaseNames}

(***************************************************************************)
(* The constructor: removeModelPrefix (index.js 51-57).                    *)
(***************************************************************************)
\* new RegExp('^' + modelPrefix) tested at the start of a name: a "." of the
\* pattern matches any character, every other character matches itself.
PrefixMatches(pat, name) ==
    /\ Len(name) >= Len(pat)
    /\ \A i \in 1..Len(pat) : pat[i] = "." \/ pat[i] = name[i]

\* A mutant of removeModelPrefix: the name is left as it is.
removeModelPrefixKept(modelName) == modelName

\* modelName.replace(modelPrefixRegex, ''): the first match, at the start, is cut.
removeModelPrefix(modelName) ==
    IF PrefixMatches(modelPrefix, modelName)
    THEN SubSeq(modelName, Len(modelPrefix) + 1, Len(modelName))
    ELSE modelName

\* if (this.modelPrefix) { model = this.removeModelPrefix(model); }
StripModel(model) ==
    IF modelPrefix # <<>> THEN removeModelPrefix(model) ELSE model

\* The registry path each method looks its model up by: this.keystone[model]
\* in save, this.keystone.lists[model] in every other method.
RegistryPath(op) == IF op = "save" THEN "direct" ELSE "lists"

\* The handle a method resolves for the model name it is given.
Resolve(op, model) == Handle(RegistryPath(op), StripModel(model))

(***************************************************************************)
(* fromDatabase (index.js 76-85) and the engine's documents.               *)
(***************************************************************************)
\* The engine's document for a stored identifier: the payload under _doc.
Payload(i) == [id |-> JsStr(i)]
Doc(i) == JsObj([_doc |-> Payload(i)])

\* A mutant of fromDatabase: the engine's document is returned as it is.
fromDatabaseWrapped(model, data) == IF ~Truthy(data) THEN JsNull ELSE data

fromDatabase(model, data) ==
    IF ~Truthy(data) THEN JsNull ELSE JsObj(data.v._doc)

\* The stored identifiers of a set as a sequence, in the engine's order.
IdSeq(S) == LET In(i) == i \in S IN SelectSeq(IdOrder, In)

(***************************************************************************)
(* The framework's identifier helpers, as updateOrCreate uses them         *)
(* (index.js 210-211, 229-230): the identifier property is named "id".     *)
(***************************************************************************)
idName(model) == "id"
getIdValue(model, data) == data[idName(model)]
setIdValue(model, data, id) == [data EXCEPT ![idName(model)] = id]

(***************************************************************************)
(* all(): the filter loop (index.js 11-16, 287-309).                       *)
(***************************************************************************)
\* A mutant of filterWhitelist: one more command is let through.
filterWhitelistWider == <<"where", "populate", "sort", "limit", "dropTable">>

filterWhitelist == <<"where", "populate", "sort", "limit">>

\* _.contains(list, x)
contains(list, x) == \E i \in 1..Len(list) : list[i] = x

\* subFilter.shift(): the leading element (undefined, which prints as
\* "undefined", when there is none) and what is left of the array.
shiftHead(subFilter) == IF subFilter = <<>> THEN "undefined" ELSE Head(subFilter)

\* A mutant of shiftRest: the leading element is read but not removed.
shiftRestKept(subFilter) == subFilter

shiftRest(subFilter) == IF subFilter = <<>> THEN <<>> ELSE Tail(subFilter)

\* cmd + ' is not a supported filter command'
NotSupported(cmd) == JsStr(cmd \o " is not a supported filter command")

\* What the engine throws when a filter method rejects its arguments.
FilterException == JsErr("FilterException")

\* A mutant of applyCmd: the arguments are dropped.
applyCmdNoArgs(query, cmd, args) == Append(query, [cmd |-> cmd, args |-> <<>>])

\* query[cmd].apply(query, subFilter): the query handle is the chain of the
\* filter methods applied so far, each with its positional arguments.
applyCmd(query, cmd, args) == Append(query, [cmd |-> cmd, args |-> args])

\* The _.each loop over the filter, from sub-filter i on.  st holds the
\* caller's filter array, the query handle, err, and whether the loop was left
\* by an exception; throwAt is the sub-filter whose filter method throws
\* (0: none does).
RECURSIVE EachSubFilter(_, _, _)
EachSubFilter(st, i, throwAt) ==
    IF i > Len(st.filter) THEN st
    ELSE IF Truthy(st.err) THEN EachSubFilter(st, i + 1, throwAt)
    ELSE LET cmd == shiftHead(st.filter[i])
             rest == shiftRest(st.filter[i])
             shifted == [st EXCEPT !.filter[i] = rest]
         IN  IF ~contains(filterWhitelist, cmd)
             THEN EachSubFilter([shifted EXCEPT !.err = NotSupported(cmd)],
                                i + 1, throwAt)
             ELSE IF throwAt = i
             THEN [shifted EXCEPT !.err = FilterException, !.thrown = i]
             ELSE EachSubFilter([shifted EXCEPT !.query = applyCmd(@, cmd, rest)],
                                i + 1, throwAt)

\* The sub-filters callers pass: empty, or a leading element (two allowed
\* commands and one that is not) followed by arguments; an argument may itself be
\* a command name, allowed or not.
FilterElems == {"where", "limit", "dropTable"}
ArgElems == {"limit", "dropTable"}
SubFilters ==
    {<<>>} \cup {<<e>> \o a : e \in FilterElems,
                             a \in UNION {[1..n -> ArgElems] : n \in 0..(MaxSubLen - 1)}}
FilterSpecs == UNION {[1..n -> SubFilters] : n \in 0..MaxFilterLen}

(***************************************************************************)
(* Calls.                                                                  *)
(***************************************************************************)
Callers == {"c1", "c2"}

\* A caller with no call made yet.  op, model, data, id: the method and its
\* arguments; key: the registry handle resolved; pc: where the call stands;
\* cont: whose callback create() was given; issued: the engine calls made, in
\* order; cb: the invocations of the caller's callback, each the sequence of its
\* arguments; given: the filter as it was when all() was called; query: the
\* query handle; thrown: the sub-filter whose filter method threw; lookup,
\* saved: what the engine answered.
NoCall == [op |-> "none", model |-> <<>>, key |-> NoHandle, pc |-> "idle",
           data |-> JsUndefined, id |-> JsUndefined, cont |-> "none",
           issued |-> <<>>, cb |-> <<>>, given |-> JsUndefined, query |-> <<>>,
           thrown |-> 0, lookup |-> "none", saved |-> "none",
           prev |-> [k |-> "none"]]

NewCall(op, model) == [NoCall EXCEPT !.op = op, !.model = model]

\* A caller makes its next call when the last one has returned to it.
Free(c) == calls[c].pc \in {"idle", "done", "thrown"}

\* callback(args): the caller's callback is invoked.
Callback(slot, args) == [slot EXCEPT !.cb = Append(@, args), !.pc = "done"]

\* The engine's answers to a delegated call: success (err is null) or an error.
EngineError == JsErr("EngineError")
Errs == {JsNull, EngineError}

(***************************************************************************)
(* create (index.js 93-116) and save (index.js 124-147).                   *)
(***************************************************************************)
\* The synchronous part of create/save: the model is looked up (a TypeError
\* leaves the method when the registry has no such entry), the record is built
\* and obj.save() is handed the callback.
persist(slot, op, model, data, cont) ==
    LET h == Resolve(op, model)
    IN  IF ~Registered(h)
        THEN [slot EXCEPT !.key = h, !.pc = "thrown"]
        ELSE [slot EXCEPT !.key = h, !.pc = "saving", !.cont = cont,
                          !.issued = Append(@, "save")]

create(slot, model, data, cont) == persist(slot, "create", model, data, cont)

Create(c, model, data) ==
    /\ Free(c)
    /\ calls' = [calls EXCEPT ![c] =
           create([NewCall("create", model) EXCEPT !.data = data], model, data, "caller")]
    /\ UNCHANGED <<modelPrefix, store, filterObj>>

Save(c, model, data) ==
    /\ Free(c)
    /\ calls' = [calls EXCEPT ![c] =
           persist([NewCall("save", model) EXCEPT !.data = data], "save", model, data,
                   "caller")]
    /\ UNCHANGED <<modelPrefix, store, filterObj>>

\* obj.save(function(err) { callback(err); }): the arguments create and save
\* pass on to their callback.
saveCallbackArgs(err) == <<err>>

\* A mutant of instFound: the branches are swapped.
instFoundSwapped(inst) == ~Truthy(inst)

\* if (inst): whether the lookup of updateOrCreate found a record.
instFound(inst) == Truthy(inst)

\* function (err, id) of updateOrCreate (index.js 224-235), called with args.
upsertCreated(slot, args) ==
    LET err == args[1]
        id == IF Len(args) >= 2 THEN args[2] ELSE JsUndefined
        withId == setIdValue(slot.model, slot.data, id)
        data == IF idName(slot.model) # "_id"
                THEN [withId EXCEPT !._id = JsUndefined] ELSE withId
    IN  IF Truthy(err) THEN Callback(slot, <<err>>)
        ELSE IF Truthy(id)
        THEN Callback([slot EXCEPT !.data = data], <<JsNull, JsObj(data)>>)
        ELSE Callback(slot, <<JsNull, JsNull>>)

\* The identifier the engine stores a saved record under: the one the data
\* carries, or else a fresh one (none when the identifiers are used up).
StoredAs(slot) ==
    IF slot.data.id.k = "string" THEN {slot.data.id.v}
    ELSE LET free == IdSeq(Ids \ store[slot.key])
         IN  IF free = <<>> THEN {} ELSE {free[1]}

\* The engine completes obj.save().
SaveComplete(c, err) ==
    LET s == calls[c]
        s1 == [s EXCEPT !.saved = IF Truthy(err) THEN "error" ELSE "ok"]
    IN  /\ s.pc = "saving"
        /\ store' = IF Truthy(err) THEN store
                    ELSE [store EXCEPT ![s.key] = @ \cup StoredAs(s)]
        /\ calls' = [calls EXCEPT ![c] =
               IF s.cont = "upsert" THEN upsertCreated(s1, saveCallbackArgs(err))
               ELSE Callback(s1, saveCallbackArgs(err))]
        /\ UNCHANGED <<modelPrefix, filterObj>>

(***************************************************************************)
(* exists (index.js 156-170), find (index.js 178-195),                     *)
(* updateOrCreate (index.js 204-238).                                      *)
(***************************************************************************)
\* The synchronous part of exists/find: the model is looked up and findById()
\* is handed the callback.
lookUp(slot, model, id) ==
    LET h == Resolve("find", model)
    IN  IF ~Registered(h)
        THEN [slot EXCEPT !.key = h, !.id = id, !.pc = "thrown"]
        ELSE [slot EXCEPT !.key = h, !.id = id, !.pc = "finding",
                          !.issued = Append(@, "findById")]

Exists(c, model, id) ==
    /\ Free(c)
    /\ calls' = [calls EXCEPT ![c] = lookUp(NewCall("exists", model), model, id)]
    /\ UNCHANGED <<modelPrefix, store, filterObj>>

Find(c, model, id) ==
    /\ Free(c)
    /\ calls' = [calls EXCEPT ![c] = lookUp(NewCall("find", model), model, id)]
    /\ UNCHANGED <<modelPrefix, store, filterObj>>

\* A mutant of idAbsent: only null counts as absent.
idAbsentNullOnly(idValue) == idValue.k = "null"

\* idValue === null || idValue === undefined
idAbsent(idValue) == idValue.k \in {"null", "undefined"}

UpdateOrCreate(c, model, data) ==
    LET s == [NewCall("updateOrCreate", model) EXCEPT !.data = data]
        idValue == getIdValue(model, data)
    IN  /\ Free(c)
        /\ calls' = [calls EXCEPT ![c] =
               IF idAbsent(idValue) THEN create(s, model, data, "caller")
               ELSE lookUp(s, model, idValue)]
        /\ UNCHANGED <<modelPrefix, store, filterObj>>

\* The arguments find() passes on to its callback (index.js 189-194).
findCallbackArgs(model, err, data) ==
    IF Truthy(err) THEN <<err>> ELSE <<err, fromDatabase(model, data)>>

\* function (err, inst) of updateOrCreate (index.js 217-237), called with args.
\* self.updateAttributes is not defined (index.js 373-395 is commented out):
\* the call expression raises a TypeError inside the engine's callback.
upsertLookedUp(slot, args) ==
    LET err == args[1]
        inst == IF Len(args) >= 2 THEN args[2] ELSE JsUndefined
    IN  IF Truthy(err) THEN Callback(slot, <<err>>)
        ELSE IF instFound(inst)
        THEN [slot EXCEPT !.issued = Append(@, "updateAttributes"), !.pc = "thrown"]
        ELSE create(slot, slot.model, slot.data, "upsert")

\* The engine completes findById(id, callback).
FindComplete(c, err) ==
    LET s == calls[c]
        data == IF Truthy(err) THEN JsUndefined
                ELSE IF s.id.k = "string" /\ s.id.v \in store[s.key]
                THEN Doc(s.id.v) ELSE JsNull
        s1 == [s EXCEPT !.lookup = IF Truthy(err) THEN "error"
                                   ELSE IF Truthy(data) THEN "found" ELSE "notfound"]
    IN  /\ s.pc = "finding"
        /\ calls' = [calls EXCEPT ![c] =
               CASE s.op = "exists" ->
                        Callback(s1, <<err, JsBool(~Truthy(err) /\ Truthy(data))>>)
                 [] s.op = "find" ->
                        Callback(s1, findCallbackArgs(s.key.name, err, data))
                 [] OTHER ->
                        upsertLookedUp(s1, findCallbackArgs(s.key.name, err, data))]
        /\ UNCHANGED <<modelPrefix, store, filterObj>>

(***************************************************************************)
(* destroy (index.js 246-259).                                             *)
(***************************************************************************)
Destroy(c, model, id) ==
    LET h == Resolve("destroy", model)
        s == [NewCall("destroy", model) EXCEPT !.key = h, !.id = id]
    IN  /\ Free(c)
        /\ calls' = [calls EXCEPT ![c] =
               IF ~Registered(h) THEN [s EXCEPT !.pc = "thrown"]
               ELSE [s EXCEPT !.pc = "removing", !.issued = <<"findById", "remove">>]]
        /\ UNCHANGED <<modelPrefix, store, filterObj>>

\* The engine completes findById(id).remove(callback): the caller's callback
\* is the engine's.
RemoveComplete(c, err) ==
    LET s == calls[c]
    IN  /\ s.pc = "removing"
        /\ store' = IF Truthy(err) THEN store
                    ELSE [store EXCEPT ![s.key] = @ \ {s.id.v}]
        /\ calls' = [calls EXCEPT ![c] = Callback(s, <<err>>)]
        /\ UNCHANGED <<modelPrefix, filterObj>>

(***************************************************************************)
(* all (index.js 268-321).                                                 *)
(***************************************************************************)
\* arg: "null" (no filter is passed) or "obj" (the caller's filter array is);
\* throwAt: the sub-filter whose filter method throws (0: none does).
All(c, model, arg, throwAt) ==
    LET h == Resolve("all", model)
        filter == IF arg = "null" THEN JsNull ELSE JsArr(filterObj)
        last == calls[c]
        prev == IF arg = "obj" /\ last.op = "all" /\ last.given.k = "array"
                   /\ last.pc # "thrown"
                THEN [k |-> "call", query |-> last.query] ELSE [k |-> "none"]
        s == [NewCall("all", model) EXCEPT !.key = h, !.given = filter, !.prev = prev]
        hasLength == filter.k = "array" /\ Len(filter.v) > 0
        st == EachSubFilter([filter |-> filterObj, query |-> <<>>,
                             err |-> JsUndefined, thrown |-> 0], 1, throwAt)
        each == [s EXCEPT !.query = st.query, !.thrown = st.thrown]
    IN  /\ Free(c)
        /\ throwAt > 0 => (hasLength /\ throwAt <= Len(filterObj))
        /\ IF ~Registered(h)
           THEN /\ calls' = [calls EXCEPT ![c] = [s EXCEPT !.pc = "thrown"]]
                /\ UNCHANGED filterObj
           ELSE IF hasLength
           THEN /\ filterObj' = st.filter
                /\ calls' = [calls EXCEPT ![c] =
                       IF Truthy(st.err) THEN Callback(each, <<st.err>>)
                       ELSE [each EXCEPT !.pc = "exec", !.issued = <<"exec">>]]
           ELSE /\ calls' = [calls EXCEPT ![c] =
                       [s EXCEPT !.pc = "exec", !.issued = <<"exec">>]]
                /\ UNCHANGED filterObj
        /\ UNCHANGED <<modelPrefix, store>>

\* The engine completes query.exec(callback) with an error or with the
\* documents of S: every stored one for the base query, those the filter
\* methods select otherwise.
ExecComplete(c, err, S) ==
    LET s == calls[c]
        data == [i \in 1..Len(IdSeq(S)) |-> Doc(IdSeq(S)[i])]
        _data == [i \in 1..Len(data) |-> fromDatabase(s.key.name, data[i])]
    IN  /\ s.pc = "exec"
        /\ S \subseteq store[s.key]
        /\ s.query = <<>> => S = store[s.key]
        /\ calls' = [calls EXCEPT ![c] =
               IF Truthy(err) THEN Callback(s, <<err>>)
               ELSE Callback(s, <<JsNull, JsArr(_data)>>)]
        /\ UNCHANGED <<modelPrefix, store, filterObj>>

(***************************************************************************)
(* Specifications.                                                         *)
(***************************************************************************)
IdArgs == {JsStr(i) : i \in Ids}

\* The filter arrays the caller of Spec owns: empty, one allowed sub-filter
\* whose argument is itself a command name, an allowed one before a rejected one.
SpecFilters == {<<>>, << <<"where", "limit">> >>, << <<"where">>, <<"dropTable">> >>}

\* One caller makes calls of every method, one after the other, under every
\* configuration of the prefix and every content of the engine.
Init ==
    /\ modelPrefix \in Prefixes
    /\ store \in [Handles -> SUBSET Ids]
    /\ filterObj \in SpecFilters
    /\ calls = [c \in Callers |-> NoCall]

Next ==
    \/ \E n \in CallNames, d \in Datas : Create("c1", n, d)
    \/ \E n \in CallNames, d \in Datas : Save("c1", n, d)
    \/ \E n \in CallNames, i \in IdArgs : Exists("c1", n, i)
    \/ \E n \in CallNames, i \in IdArgs : Find("c1", n, i)
    \/ \E n \in CallNames, d \in Datas : UpdateOrCreate("c1", n, d)
    \/ \E n \in CallNames, i \in IdArgs : Destroy("c1", n, i)
    \/ \E n \in CallNames, a \in {"null", "obj"}, t \in 0..MaxFilterLen :
           All("c1", n, a, t)
    \/ \E e \in Errs : SaveComplete("c1", e)
    \/ \E e \in Errs : FindComplete("c1", e)
    \/ \E e \in Errs : RemoveComplete("c1", e)
    \/ \E e \in Errs, S \in SUBSET Ids : ExecComplete("c1", e, S)

Spec == Init /\ [][Next]_vars

\* all() alone, called again and again with the same filter array, for every
\* filter array within the bounds.
InitAll ==
    /\ modelPrefix = <<>>
    /\ store = [h \in Handles |-> Ids]
    /\ filterObj \in FilterSpecs
    /\ calls = [c \in Callers |-> NoCall]

NextAll ==
    \/ \E a \in {"null", "obj"}, t \in 0..MaxFilterLen : All("c1", NameU, a, t)
    \/ \E e \in Errs, S \in SUBSET Ids : ExecComplete("c1", e, S)

SpecAll == InitAll /\ [][NextAll]_vars

\* Two callers make updateOrCreate calls concurrently, from an empty store.
InitRace ==
    /\ modelPrefix = <<>>
    /\ store = [h \in Handles |-> {}]
    /\ filterObj = <<>>
    /\ calls = [c \in Callers |-> NoCall]

NextRace ==
    \/ \E c \in Callers, d \in Datas : UpdateOrCreate(c, NameU, d)
    \/ \E c \in Callers, e \in Errs : FindComplete(c, e)
    \/ \E c \in Callers, e \in Errs : SaveComplete(c, e)

SpecRace == InitRace /\ [][NextRace]_vars

(***************************************************************************)
(* Properties.                                                             *)
(***************************************************************************)
\* The allow-list as the specification states it.
Allowed == {"where", "populate", "sort", "limit"}

\* The leading element of a sub-filter (an empty one has none: undefined).
LeadOf(sub) == IF sub = <<>> THEN "undefined" ELSE sub[1]
ArgsOf(sub) == IF sub = <<>> THEN <<>> ELSE SubSeq(sub, 2, Len(sub))

\* The first sub-filter of g whose leading element is not allowed (0: none).
FirstBad(g) ==
    IF \A i \in 1..Len(g) : LeadOf(g[i]) \in Allowed THEN 0
    ELSE CHOOSE i \in 1..Len(g) :
             /\ LeadOf(g[i]) \notin Allowed
             /\ \A j \in 1..(i - 1) : LeadOf(g[j]) \in Allowed

\* The filter methods of the first n sub-filters of g, in order, each with the
\* rest of its sub-filter as arguments.
Chain(g, n) == [i \in 1..n |-> [cmd |-> LeadOf(g[i]), args |-> ArgsOf(g[i])]]

\* The calls of all() that got past the registry lookup with a filter array.
FilteredAll(c) ==
    /\ calls[c].op = "all"
    /\ calls[c].pc # "thrown"
    /\ calls[c].given.k = "array"

RejectionOf(g) == <<JsStr(LeadOf(g[FirstBad(g)]) \o " is not a supported filter command")>>

\* C1 as claimed: whenever the filter holds a sub-filter whose leading element
\* is not allowed, all() completes with '<command> is not a supported filter
\* command' for the first such command and exec is never called (stated for
\* the filters whose first such sub-filter does have a leading element).
C1_AsClaimed ==
    \A c \in Callers :
        (/\ FilteredAll(c)
         /\ FirstBad(calls[c].given.v) > 0
         /\ calls[c].given.v[FirstBad(calls[c].given.v)] # <<>>) =>
            /\ calls[c].cb = <<RejectionOf(calls[c].given.v)>>
            /\ calls[c].issued = <<>>

\* C1 amended: whenever the filter holds a sub-filter whose leading element is
\* not allowed, exec is never called and all() completes at once with one error:
\* '<command> is not a supported filter command' for the first such command,
\* unless the filter method of an allowed sub-filter before it threw, in which
\* case the error is that exception.
C1_RejectedNeverExecutes ==
    \A c \in Callers :
        (FilteredAll(c) /\ FirstBad(calls[c].given.v) > 0) =>
            /\ calls[c].issued = <<>>
            /\ calls[c].pc = "done"
            /\ IF calls[c].thrown = 0
               THEN calls[c].cb = <<RejectionOf(calls[c].given.v)>>
               ELSE /\ calls[c].thrown < FirstBad(calls[c].given.v)
                    /\ calls[c].cb = <<(<<FilterException>>)>>

\* A rejected command after an allowed sub-filter that was applied.
C1_Witness ==
    \E c \in Callers :
        /\ FilteredAll(c)
        /\ FirstBad(calls[c].given.v) = 2
        /\ calls[c].thrown = 0
        /\ Len(calls[c].query) = 1
        /\ calls[c].cb = <<RejectionOf(calls[c].given.v)>>

\* C2 as claimed: for a filter of allowed sub-filters only, every sub-filter's
\* command is applied with the rest of the sub-filter as arguments, in the
\* filter's order, and then the query is executed.
C2_AsClaimed ==
    \A c \in Callers :
        (FilteredAll(c) /\ FirstBad(calls[c].given.v) = 0) =>
            /\ calls[c].query = Chain(calls[c].given.v, Len(calls[c].given.v))
            /\ calls[c].issued = <<"exec">>

\* C2 amended: for a filter of allowed sub-filters only, the commands are
\* applied in the filter's order, each with the rest of its sub-filter as
\* arguments; when none throws, all of them are applied and then the query is
\* executed; when one throws, those before it have been applied, none after it
\* is, the query is not executed and the exception is the error.
C2_AppliedInOrder ==
    \A c \in Callers :
        (FilteredAll(c) /\ FirstBad(calls[c].given.v) = 0) =>
            IF calls[c].thrown = 0
            THEN /\ calls[c].query = Chain(calls[c].given.v, Len(calls[c].given.v))
                 /\ calls[c].issued = <<"exec">>
                 /\ calls[c].pc \in {"exec", "done"}
            ELSE /\ calls[c].query = Chain(calls[c].given.v, calls[c].thrown - 1)
                 /\ calls[c].issued = <<>>
                 /\ calls[c].cb = <<(<<FilterException>>)>>

\* Two allowed sub-filters, the first with an argument, applied and executed.
C2_Witness ==
    \E c \in Callers :
        /\ FilteredAll(c)
        /\ Len(calls[c].given.v) = 2
        /\ FirstBad(calls[c].given.v) = 0
        /\ Len(calls[c].given.v[1]) = 2
        /\ LeadOf(calls[c].given.v[1]) # LeadOf(calls[c].given.v[2])
        /\ Len(calls[c].query) = 2
        /\ calls[c].pc = "done"

\* The calls of all() that got past the registry lookup with no filter or an
\* empty one.
UnfilteredAll(c) ==
    /\ calls[c].op = "all"
    /\ calls[c].pc # "thrown"
    /\ \/ calls[c].given = JsNull
       \/ (calls[c].given.k = "array" /\ calls[c].given.v = <<>>)

\* The payloads of the records stored under handle h, in the engine's order.
Unwrapped(h) == [i \in 1..Len(IdSeq(store[h])) |-> JsObj(Payload(IdSeq(store[h])[i]))]

\* C8: all(model, []) and all(model, null) apply no filter command, call exec
\* once, and complete with the engine's error alone or with the unwrapped
\* records of the model.
C8_UnfilteredBaseQuery ==
    \A c \in Callers :
        UnfilteredAll(c) =>
            /\ calls[c].query = <<>>
            /\ calls[c].issued = <<"exec">>
            /\ calls[c].pc \in {"exec", "done"}
            /\ calls[c].pc = "done" =>
                   /\ Len(calls[c].cb) = 1
                   /\ IF Len(calls[c].cb[1]) = 1
                      THEN calls[c].cb[1][1] = EngineError
                      ELSE /\ Len(calls[c].cb[1]) = 2
                           /\ calls[c].cb[1][1] = JsNull
                           /\ calls[c].cb[1][2] = JsArr(Unwrapped(calls[c].key))

\* all(model, null) completed with a record.
C8_Witness ==
    \E c \in Callers :
        /\ UnfilteredAll(c)
        /\ calls[c].given = JsNull
        /\ calls[c].pc = "done"
        /\ Len(calls[c].cb[1]) = 2
        /\ Len(calls[c].cb[1][2].v) >= 1

\* The number of sub-filters the loop of call c went through: up to the one
\* that threw, else up to the first rejected one, else all of them.
Processed(c) ==
    IF calls[c].thrown > 0 THEN calls[c].thrown
    ELSE IF FirstBad(calls[c].given.v) > 0 THEN FirstBad(calls[c].given.v)
    ELSE Len(calls[c].given.v)

\* C10: after all(), every sub-filter the loop went through has lost its
\* leading element in the caller's array, the sub-filters after a rejected
\* command are as they were, and none of those was applied to the query handle.
C10_FilterConsumed ==
    \A c \in Callers :
        FilteredAll(c) =>
            /\ Len(filterObj) = Len(calls[c].given.v)
            /\ \A i \in 1..Len(filterObj) :
                   filterObj[i] = IF i <= Processed(c) THEN ArgsOf(calls[c].given.v[i])
                                  ELSE calls[c].given.v[i]
            /\ Len(calls[c].query) <= Processed(c)
            /\ FirstBad(calls[c].given.v) > 0 =>
                   Len(calls[c].query) < FirstBad(calls[c].given.v)

\* A second all() with the same array: what the first call left as leading
\* element is rejected, the sub-filter after it is untouched and not applied,
\* and the commands applied differ from those of the first call.
C10_Witness ==
    \E c \in Callers :
        /\ FilteredAll(c)
        /\ calls[c].prev.k = "call"
        /\ calls[c].prev.query # calls[c].query
        /\ Len(calls[c].given.v) = 2
        /\ FirstBad(calls[c].given.v) = 1
        /\ calls[c].given.v[2] # <<>>
        /\ filterObj[2] = calls[c].given.v[2]
        /\ filterObj[1] = <<>>

C4_AsClaimed ==
    \A c \in Callers :
        (/\ calls[c].op = "updateOrCreate"
         /\ calls[c].lookup = "notfound"
         /\ calls[c].saved = "ok") =>
            /\ Len(calls[c].cb) = 1
            /\ Len(calls[c].cb[1]) = 2
            /\ calls[c].cb[1][1] = JsNull
            /\ calls[c].cb[1][2].k = "object"
            /\ calls[c].cb[1][2].v.id = calls[c].id
            /\ calls[c].cb[1][2].v._id = JsUndefined

\* C5 as claimed: a call that has returned and has no engine call pending has
\* invoked the caller's callback exactly once (stated for the calls whose model
\* is in the registry).
C5_AsClaimed ==
    \A c \in Callers :
        (/\ calls[c].op # "none"
         /\ Registered(calls[c].key)
         /\ calls[c].pc \in {"done", "thrown"}) =>
            Len(calls[c].cb) = 1

\* C6: updateOrCreate with data whose identifier is null or undefined never
\* issues a lookup; it goes through create on the lists registry with the
\* caller's callback, and the only engine call is the save of the new record.
C6_NoLookupWithoutId ==
    \A c \in Callers :
        (/\ calls[c].op = "updateOrCreate"
         /\ calls[c].data.id.k \in {"null", "undefined"}) =>
            /\ calls[c].lookup = "none"
            /\ calls[c].key = Handle("lists", StripModel(calls[c].model))
            /\ IF Registered(calls[c].key)
               THEN /\ calls[c].issued = <<"save">>
                    /\ calls[c].cont = "caller"
                    /\ calls[c].pc \in {"saving", "done"}
               ELSE calls[c].issued = <<>>

\* updateOrCreate with an undefined identifier has created its record.
C6_Witness ==
    \E c \in Callers :
        /\ calls[c].op = "updateOrCreate"
        /\ calls[c].data.id = JsUndefined
        /\ calls[c].issued = <<"save">>
        /\ calls[c].saved = "ok"
        /\ calls[c].pc = "done"

\* C7: updateOrCreate whose lookup yields a record (one the engine stores)
\* calls updateAttributes and never create; a lookup error is handed to the
\* callback and neither path is taken.
C7_FoundTakesUpdatePath ==
    \A c \in Callers :
        calls[c].op = "updateOrCreate" =>
            /\ calls[c].lookup = "found" =>
                   /\ calls[c].id.v \in store[calls[c].key]
                   /\ calls[c].issued = <<"findById", "updateAttributes">>
                   /\ calls[c].saved = "none"
            /\ calls[c].lookup = "error" =>
                   /\ calls[c].issued = <<"findById">>
                   /\ calls[c].cb = <<(<<EngineError>>)>>

\* A lookup that found the record, followed by the call of updateAttributes.
C7_Witness ==
    \E c \in Callers :
        /\ calls[c].op = "updateOrCreate"
        /\ calls[c].lookup = "found"
        /\ calls[c].issued = <<"findById", "updateAttributes">>

\* C9: create is issued after a lookup only when that lookup found nothing,
\* and nothing orders one caller's lookup after another caller's create: two
\* calls for the same identifier can both stand between lookup and create.
C9_CreateOnlyAfterNotFound ==
    \A c \in Callers :
        (calls[c].op = "updateOrCreate" /\ calls[c].cont = "upsert") =>
            /\ calls[c].lookup = "notfound"
            /\ calls[c].issued = <<"findById", "save">>

\* Both callers looked the same identifier up, both were answered "not
\* found", and both have a create pending at the engine for it.
C9_Witness ==
    /\ \A c \in Callers :
           /\ calls[c].op = "updateOrCreate"
           /\ calls[c].lookup = "notfound"
           /\ calls[c].pc = "saving"
           /\ calls[c].issued = <<"findById", "save">>
    /\ calls["c1"].key = calls["c2"].key
    /\ calls["c1"].id = calls["c2"].id
    /\ calls["c1"].id.v \notin store[calls["c1"].key]

====
